---- MODULE Spec2Model ----
(***************************************************************************)
(* Entity-resolution pipeline and co-occurrence network of the             *)
(* epstein-files repository (scripts/final).                               *)
(*                                                                         *)
(*  - SpecV1   : the first pass F2 (run_name_consolidation.py).            *)
(*  - Spec     : the refinement passes F2b, F2c, F2d over the table        *)
(*               FINAL_3_unique_names (run_name_consolidation_v2/v3/v4).   *)
(*  - SpecCU   : create_unique_names.py.                                   *)
(*  - SpecNet  : build_network.py over FINAL_2_CLASSIFIER_name_extraction  *)
(*               and the "canonical_name [F2d]" column.                    *)
(*  - SpecCom  : build_network.py on rows that yield several communities. *)
(*  - SpecMatch: the candidate matchers of the consolidation scripts on    *)
(*               lists of names.                                           *)
(*  - SpecExt, SpecExtLive : the concurrent oracle calls of                *)
(*               run_name_extraction.py, without and with fairness.        *)
(*  - SpecPipe : the step order of run_pipeline.py.                        *)
(*  - SpecSel  : the occurrence counts of create_unique_names.py,          *)
(*               build_network.py and run_relationship_description.py.     *)
(***************************************************************************)
EXTENDS Integers, Sequences, FiniteSets, TLC

VARIABLES
    \* ---- FINAL_3_unique_names and one running consolidation script ----
    tbl,            \* name_extracted -> [F2, F2c, F2d] (column values)
    cols,           \* generation columns that exist in the table
    stage,          \* how many of the passes F2b, F2c, F2d have been started
    pc,             \* position of the running consolidation script
    run_id,         \* RUN_ID of the running script
    n_batches,      \* len(batches) of the running script
    batch_i,        \* batches already answered by the oracle
    all_changes,    \* the dict all_changes, in insertion order
    batch_log,      \* per answered batch: what call_sonnet met and did
    \* ---- build_network.py ----
    name_mapping,   \* name_extracted -> "canonical_name [F2d]"
    emails,         \* rows of FINAL_2_CLASSIFIER_name_extraction
    npc,            \* position of build_network.main / create_unique_names.main
    email_i,        \* rows already handled by the current loop
    person_counts,  \* Counter person -> count
    email_persons,  \* list of (thread_id, body, all_persons)
    valid_persons,  \* persons with count >= 4
    edges,          \* Counter (p1, p2) -> weight
    edge_examples,  \* (p1, p2) -> list of excerpts
    G,              \* the networkx graph: [nodes, edges, community]
    out_edges,      \* rows of FINAL_5_network_edges
    out_nodes,      \* rows of FINAL_5_network_nodes
    \* ---- create_unique_names.py ----
    unique_names,   \* FINAL_3_unique_names: [exists, occurrences by name]
    \* ---- the candidate matchers of the consolidation scripts ----
    input_names,          \* the list of names handed to a matcher
    lastname_matches,     \* result of find_lastname_matches (v1)
    potential_duplicates, \* result of find_potential_duplicates (v3)
    suffix_duplicates,    \* result of find_suffix_duplicates (v4)
    \* ---- run_name_extraction.py ----
    tasks,          \* batch -> [pc, attempt, result] of its call_api task
    semaphore,      \* free permits of asyncio.Semaphore(MAX_CONCURRENT)
    waiters,        \* batches waiting in semaphore.acquire, oldest first
    \* ---- run_pipeline.py ----
    db,             \* tables and generation columns present in the database
    written,        \* those written by the steps of this pipeline run
    results,        \* the list results of run_pipeline.main
    \* ---- run_relationship_description.py ----
    rel_rows        \* result of get_canonical_names_with_occurrences

consVars == <<tbl, cols, stage, pc, run_id, n_batches, batch_i, all_changes,
              batch_log>>
netVars == <<name_mapping, emails, npc, email_i, person_counts, email_persons,
             valid_persons, edges, edge_examples, G, out_edges, out_nodes>>
matchVars == <<input_names, lastname_matches, potential_duplicates, suffix_duplicates>>
extVars == <<tasks, semaphore, waiters>>
pipeVars == <<db, written, results>>
auxVars == <<matchVars, extVars, pipeVars, rel_rows>>
vars == <<consVars, netVars, unique_names, auxVars>>

\* SQL NULL / Python None (no string of the model's universe equals it).
NULL == "<NULL>"

\* The sentinel the consolidation prompts use for "not a person".
NONE == "None"

\* No matcher has been called.
NotCalled == [called |-> FALSE, result |-> <<>>]

Returned(x) == [called |-> TRUE, result |-> x]

matchFrozen ==
    /\ input_names = <<>> /\ lastname_matches = NotCalled
    /\ potential_duplicates = NotCalled /\ suffix_duplicates = NotCalled

\* The parts of the repository a specification leaves out are at rest.
\* run_name_extraction.py is not running.
extFrozen == tasks = <<>> /\ semaphore = 0 /\ waiters = <<>>

\* run_pipeline.py is not running.
pipeFrozen == db = {} /\ written = {} /\ results = <<>>

\* run_relationship_description.py has not run.
relFrozen == rel_rows = NotCalled

auxFrozen == matchFrozen /\ extFrozen /\ pipeFrozen /\ relFrozen

----------------------------------------------------------------------------
(* Bounds of the model *)

\* Largest number of entries in one oracle answer.
MaxResp == 2

\* BATCH_SIZE of run_name_consolidation_v2 (300 names per oracle call in the
\* source), scaled to the size of the modelled table so that a pass has
\* several batches.
BatchSizeNames == 1

\* Rows of FINAL_2_CLASSIFIER_name_extraction.
NumThreads == 4

----------------------------------------------------------------------------
(* Names and the string functions used on them *)

\* name_extracted values of the modelled FINAL_3_unique_names.
RawNames == {"Landon Thomas", "Thomas Landon", "Landon Thomas Jr."}

\* Canonical name strings the oracle may produce.
CanonNames == {"Landon Thomas", "Thomas Landon", "Landon Thomas Jr."}

ColumnValues == CanonNames \cup {NONE}

\* str.split() on the names of the model.
Split(name) ==
    CASE name = "Landon Thomas" -> <<"Landon", "Thomas">>
      [] name = "Thomas Landon" -> <<"Thomas", "Landon">>
      [] name = "Landon Thomas Jr." -> <<"Landon", "Thomas", "Jr.">>
      [] name = "Landon Smith Jr." -> <<"Landon", "Smith", "Jr.">>
      [] name = "Leon Black Thomas" -> <<"Leon", "Black", "Thomas">>
      [] name = "Landon Black Thomas" -> <<"Landon", "Black", "Thomas">>
      [] name = "Leon Landon Thomas" -> <<"Leon", "Landon", "Thomas">>
      [] name = "None" -> <<"None">>
      [] OTHER -> <<name>>

\* str.lower() on the words of the model.
Lower(w) ==
    CASE w = "Landon" -> "landon"
      [] w = "Thomas" -> "thomas"
      [] w = "Smith" -> "smith"
      [] w = "Leon" -> "leon"
      [] w = "Black" -> "black"
      [] w = "Jr." -> "jr."
      [] w = "None" -> "none"
      [] OTHER -> w

\* re.findall(r'[a-z]+', w) on a lower-cased word of the model.
AlphaRuns(w) ==
    CASE w = "jr." -> <<"jr">>
      [] OTHER -> <<w>>

\* re.sub(r'[^\w\s]', '', w) on a lower-cased word of the model.
StripPunct(w) ==
    CASE w = "jr." -> "jr"
      [] OTHER -> w

Range(s) == {s[k] : k \in DOMAIN s}

stopwords == {"jr", "sr", "ii", "iii", "iv", "dr", "mr", "ms", "mrs", "prof"}

tokenize_name(name) ==
    LET tokens == UNION {Range(AlphaRuns(Lower(w))) : w \in Range(Split(name))}
    IN  {t \in tokens : Len(t) > 1 /\ t \notin stopwords}

\* The suffix list of normalize_name, each without its leading blank.
suffixes == <<"jr.", "jr", "sr.", "sr", "iii", "ii", "iv", "esq.", "esq", "phd", "md">>

RECURSIVE StripSuffixes(_, _)
\* for suffix in suffixes: if name.endswith(suffix): name = name[:-len(suffix)]
\* (ws: the lower-cased words; a suffix starts with a blank, so it matches
\* the last word only when another word precedes it).
StripSuffixes(ws, k) ==
    IF k > Len(suffixes) THEN ws
    ELSE IF Len(ws) >= 2 /\ ws[Len(ws)] = suffixes[k]
         THEN StripSuffixes(SubSeq(ws, 1, Len(ws) - 1), k + 1)
         ELSE StripSuffixes(ws, k + 1)

\* The normalized form without the loop over the suffixes.
normalize_name_keep_suffix(name) ==
    [k \in DOMAIN Split(name) |-> StripPunct(Lower(Split(name)[k]))]

\* The normalized form, as its sequence of words.
normalize_name(name) ==
    LET lw == [k \in DOMAIN Split(name) |-> Lower(Split(name)[k])]
        cut == StripSuffixes(lw, 1)
    IN  [k \in DOMAIN cut |-> StripPunct(cut[k])]

----------------------------------------------------------------------------
(* Candidate matchers, as far as run_consolidation depends on them *)

\* potential_groups: frozenset(shared tokens) -> names, for the pairs with
\* two or more shared tokens.
PotentialGroups(names) ==
    LET linked == {pr \in names \X names :
                      /\ pr[1] # pr[2]
                      /\ Cardinality(tokenize_name(pr[1]) \cap tokenize_name(pr[2])) >= 2}
        keys == {tokenize_name(pr[1]) \cap tokenize_name(pr[2]) : pr \in linked}
    IN  [key \in keys |->
            {n \in names : \E pr \in linked :
                /\ n \in {pr[1], pr[2]}
                /\ tokenize_name(pr[1]) \cap tokenize_name(pr[2]) = key}]

RECURSIVE EmitGroups(_, _, _)
\* The loop over sorted(potential_groups.items(), key=-len): a group keeps the
\* names not seen before and is emitted when two or more remain.
EmitGroups(pg, left, seen) ==
    IF left = {} THEN {}
    ELSE LET key == CHOOSE k \in left :
                        \A o \in left : Cardinality(pg[k]) >= Cardinality(pg[o])
             new_names == pg[key] \ seen
         IN  IF Cardinality(new_names) >= 2
             THEN {new_names} \cup EmitGroups(pg, left \ {key}, seen \cup new_names)
             ELSE EmitGroups(pg, left \ {key}, seen)

\* The groups of a set of names whose potential groups differ in size, so that
\* the order of the emitting loop is that of the sizes.
PotentialDuplicatesOf(names) ==
    EmitGroups(PotentialGroups(names), DOMAIN PotentialGroups(names), {})

find_suffix_duplicates(names) ==
    LET norms == {normalize_name(n) : n \in names}
        group(norm) == {n \in names : normalize_name(n) = norm}
    IN  {group(norm) : norm \in {m \in norms : Cardinality(group(m)) >= 2}}

----------------------------------------------------------------------------
(* The refinement passes *)

Passes == <<"F2b", "F2c", "F2d">>

\* The column get_canonical_names reads.
SourceColumn(id) ==
    CASE id = "F2b" -> "F2"
      [] id = "F2c" -> "F2"
      [] id = "F2d" -> "F2c"

\* A pass that writes the column it read, as F2b does.
TargetColumnInPlace(id) ==
    SourceColumn(id)

\* The column the UPDATE statements of the pass write.
TargetColumn(id) ==
    CASE id = "F2b" -> "F2"
      [] id = "F2c" -> "F2c"
      [] id = "F2d" -> "F2d"

\* SELECT DISTINCT col ... WHERE col IS NOT NULL AND col != 'None'
get_canonical_names(col) ==
    {tbl[r][col] : r \in RawNames} \ {NULL, NONE}

CeilDiv(n, d) == (n + d - 1) \div d

\* BATCH_SIZE of run_name_consolidation_v3: groups per oracle call.
BatchSizeGroups == 10

\* One entry of an oracle answer: (old name, new name). An entry that maps a
\* name to itself updates no row and is left out.
Pairs == {pr \in ColumnValues \X ColumnValues : pr[1] # pr[2]}

Keys(d) == {d[k][1] : k \in DOMAIN d}

\* The parsed JSON objects call_sonnet can return: a dict has distinct keys;
\* <<>> is {} (no changes, or any failure of the call).
Responses ==
    UNION {{s \in [1..n -> Pairs] : \A i, j \in 1..n : i # j => s[i][1] # s[j][1]}
           : n \in 0..MaxResp}

Lookup(d, key) == d[CHOOSE k \in DOMAIN d : d[k][1] = key][2]

\* d[key] = value: an existing key keeps its place and takes the new value, a
\* new key is appended.
DictSet(d, key, value) ==
    IF key \in Keys(d)
    THEN [k \in DOMAIN d |-> IF d[k][1] = key THEN <<key, value>> ELSE d[k]]
    ELSE Append(d, <<key, value>>)

RECURSIVE DictUpdateFrom(_, _, _)
DictUpdateFrom(d, c, k) ==
    IF k > Len(c) THEN d
    ELSE DictUpdateFrom(DictSet(d, c[k][1], c[k][2]), c, k + 1)

\* all_changes.update(changes)
DictUpdate(d, c) == DictUpdateFrom(d, c, 1)

\* An UPDATE keyed by the raw name instead of the canonical value: a plain
\* dictionary overwrite of the row called old.
UpdateWhereRawName(t, col, old, new) ==
    [r \in DOMAIN t |-> IF r = old THEN [t[r] EXCEPT ![col] = new] ELSE t[r]]

\* UPDATE t SET col = new WHERE col = old
UpdateWhere(t, col, old, new) ==
    [r \in DOMAIN t |-> IF t[r][col] = old THEN [t[r] EXCEPT ![col] = new] ELSE t[r]]

RECURSIVE ApplyFrom(_, _, _, _)
ApplyFrom(t, col, changes, k) ==
    IF k > Len(changes) THEN t
    ELSE ApplyFrom(UpdateWhere(t, col, changes[k][1], changes[k][2]), col, changes, k + 1)

\* for old_name, new_name in all_changes.items(): UPDATE ...
ApplyChanges(t, col, changes) ==
    ApplyFrom(t, col, changes, 1)

\* UPDATE t SET dst = src WHERE dst IS NULL
CopyWhereNull(t, src, dst) ==
    [r \in DOMAIN t |-> IF t[r][dst] = NULL THEN [t[r] EXCEPT ![dst] = t[r][src]] ELSE t[r]]

\* The table as the UPDATE loop of pass id finds it: F2c and F2d first add
\* their column and fill its NULLs from the parent column.
Prepared(t, id) ==
    IF TargetColumn(id) = SourceColumn(id) THEN t
    ELSE CopyWhereNull(t, SourceColumn(id), TargetColumn(id))

\* groups of the pass (F2b sends the names themselves).
Groups(id) ==
    CASE id = "F2b" -> {}
      [] id = "F2c" -> PotentialDuplicatesOf(get_canonical_names("F2"))
      [] id = "F2d" -> find_suffix_duplicates(get_canonical_names("F2c"))

\* len(batches): F2b slices the names, F2c the groups, F2d makes one call.
NumBatches(id) ==
    CASE id = "F2b" -> CeilDiv(Cardinality(get_canonical_names("F2")), BatchSizeNames)
      [] id = "F2c" -> CeilDiv(Cardinality(Groups(id)), BatchSizeGroups)
      [] id = "F2d" -> 1

consIdle ==
    /\ pc' = "idle" /\ run_id' = NULL /\ n_batches' = 0 /\ batch_i' = 0
    /\ all_changes' = <<>>
    /\ batch_log' = <<>>
    /\ UNCHANGED <<netVars, unique_names, auxVars>>

\* run_consolidation up to the first oracle call. The scripts are run in the
\* order of the lineage F2 -> F2b -> F2c -> F2d, each at most once; a pass may
\* be skipped.
Start(id) ==
    /\ pc = "idle"
    /\ \E k \in 1..3 : Passes[k] = id /\ stage < k /\ stage' = k
    /\ SourceColumn(id) \in cols
    /\ id = "F2b" \/ Groups(id) # {}
    /\ pc' = "collect"
    /\ run_id' = id
    /\ n_batches' = NumBatches(id)
    /\ batch_i' = 0
    /\ all_changes' = <<>>
    /\ batch_log' = <<>>
    /\ UNCHANGED <<tbl, cols>>
    /\ UNCHANGED <<netVars, unique_names, auxVars>>

\* F2c / F2d with no candidate group: "No potential duplicates found!",
\* return before any column is added.
StartNoGroups(id) ==
    /\ pc = "idle"
    /\ id # "F2b"
    /\ \E k \in 1..3 : Passes[k] = id /\ stage < k /\ stage' = k
    /\ SourceColumn(id) \in cols
    /\ Groups(id) = {}
    /\ consIdle
    /\ UNCHANGED <<tbl, cols>>

\* The SELECT of get_canonical_names names a column that does not exist:
\* sqlite3.OperationalError ends the script.
StartNoColumn(id) ==
    /\ pc = "idle"
    /\ \E k \in 1..3 : Passes[k] = id /\ stage < k /\ stage' = k
    /\ SourceColumn(id) \notin cols
    /\ consIdle
    /\ UNCHANGED <<tbl, cols>>

\* What one POST to the oracle can meet: a parsed answer, an error whose
\* message names the rate limit or an overload, another failure answer
\* (empty body, status other than 200, other API error, no content), or an
\* exception (network error, timeout, text that is not JSON).
OracleKinds == {"ok", "rate", "error", "exception"}

\* The seconds call_sonnet sleeps after a rate-limit answer.
RateLimitSleep == 30

\* What call_sonnet of v2, v3 and v4 does for one batch: one POST, a sleep
\* after a rate-limit answer, and the return of {} for every failure.
CallRecord(kind) ==
    [kind |-> kind, calls |-> 1,
     sleeps |-> IF kind = "rate" THEN <<RateLimitSleep>> ELSE <<>>]

\* One iteration of the batch loop: await call_sonnet, then
\* "if changes: all_changes.update(changes)".
CallSonnet ==
    /\ pc = "collect"
    /\ batch_i < n_batches
    /\ \E kind \in OracleKinds :
          /\ \E changes \in Responses :
                /\ kind # "ok" => changes = <<>>
                /\ all_changes' = IF changes # <<>> THEN DictUpdate(all_changes, changes)
                                  ELSE all_changes
          /\ batch_log' = Append(batch_log, CallRecord(kind))
    /\ batch_i' = batch_i + 1
    /\ UNCHANGED <<tbl, cols, stage, pc, run_id, n_batches>>
    /\ UNCHANGED <<netVars, unique_names, auxVars>>

\* The database transaction after the loop: ALTER TABLE, the copy of the
\* parent column, the UPDATE per entry of all_changes, commit.
ApplyToDatabase ==
    /\ pc = "collect"
    /\ batch_i = n_batches
    /\ cols' = cols \cup {TargetColumn(run_id)}
    /\ tbl' = ApplyChanges(Prepared(tbl, run_id), TargetColumn(run_id), all_changes)
    /\ pc' = "done"
    /\ UNCHANGED <<stage, run_id, n_batches, batch_i, all_changes, batch_log>>
    /\ UNCHANGED <<netVars, unique_names, auxVars>>

\* Export of the run's JSON file and the end of the process.
Exit ==
    /\ pc = "done"
    /\ consIdle
    /\ UNCHANGED <<tbl, cols, stage>>

\* FINAL_3_unique_names after the first pass; the column of F2c is absent,
\* or is left by an earlier run of that pass over an F2 column in which
\* every name was its own canonical name.
consInit ==
    /\ \E earlier \in BOOLEAN :
          /\ tbl \in [RawNames -> [F2 : ColumnValues, F2c : {NULL}, F2d : {NULL}]]
                \cup {t \in [RawNames -> [F2 : ColumnValues, F2c : RawNames, F2d : {NULL}]] :
                        earlier /\ \A r \in RawNames : t[r].F2c = r}
          /\ earlier <=> \A r \in RawNames : tbl[r].F2c # NULL
          /\ cols = IF earlier THEN {"F2", "F2c"} ELSE {"F2"}
    /\ stage = 0
    /\ pc = "idle" /\ run_id = NULL /\ n_batches = 0 /\ batch_i = 0
    /\ all_changes = <<>> /\ batch_log = <<>>

Next ==
    \/ \E id \in {"F2b", "F2c", "F2d"} : Start(id)
    \/ \E id \in {"F2c", "F2d"} : StartNoGroups(id)
    \/ \E id \in {"F2d"} : StartNoColumn(id)
    \/ CallSonnet
    \/ ApplyToDatabase
    \/ Exit

----------------------------------------------------------------------------
(* build_network.py *)

\* Names met in the threads, and the values of "canonical_name [F2d]".
GMaxwell == "Ghislaine Maxwell"
Maxwell == "Maxwell"
BGates == "Bill Gates"

\* A list element that is no string and cannot be a dict key (a nested list
\* or an object in the extracted JSON): name_mapping.get raises TypeError.
Unhashable == "<unhashable>"

EXCLUDED_NAMES ==
    {"Jeffrey Epstein", "Jeffrey E.", "Jeffrey E", "Jeffrey", "E. Jeffrey",
     "Epstein", "Jeff Epstein", "J. Epstein", "JE", "J.E.", "jeffrey E.",
     "jeffrey", "JEFFREY", "Jeff", "jeff"}

\* Python's order of the strings of the model (code point order).
StrOrder ==
    <<"", "<NULL>", "<unhashable>", "Bill Gates", "Ghislaine Maxwell", "Jeff",
      "Jeffrey Epstein", "Landon Black Thomas", "Landon Smith Jr.",
      "Landon Thomas", "Landon Thomas Jr.", "Leon Black", "Leon Black Thomas",
      "Leon Landon Thomas", "Maxwell", "None", "Thomas", "Thomas Landon", "Zed",
      "thomas">>

StrRank(x) == CHOOSE k \in DOMAIN StrOrder : StrOrder[k] = x

StrLess(a, b) == StrRank(a) < StrRank(b)

\* The F2d column as build_network loads it: rows exist for the names
\* create_unique_names found; "Zed" has no row.
NameMappings ==
    {f \in [{GMaxwell, Maxwell, BGates, "Jeff"} ->
              {GMaxwell, Maxwell, BGates, NONE, "Jeffrey Epstein"}] :
        /\ f[GMaxwell] = GMaxwell
        /\ f[BGates] = BGates
        /\ f[Maxwell] \in {GMaxwell, Maxwell, NONE}
        /\ f["Jeff"] \in {"Jeffrey Epstein", BGates}
        /\ f["Jeff"] = BGates => f[Maxwell] # Maxwell}

\* A body of 81 characters with a line break in it.
LongBody ==
    [k \in 1..81 |-> IF k = 2 THEN "\n" ELSE IF k = 81 THEN "!" ELSE "a"]

\* The (names_mentioned, body) pairs a row may hold.
ThreadMenu ==
    { [names_json |-> [kind |-> "list", list |-> <<GMaxwell, Maxwell, BGates>>],
       body |-> [isnull |-> FALSE, text |-> <<"h", "i", "\n", "x">>]],
      [names_json |-> [kind |-> "list", list |-> <<BGates, GMaxwell, GMaxwell, "Jeff">>],
       body |-> [isnull |-> FALSE, text |-> LongBody]],
      [names_json |-> [kind |-> "list", list |-> <<GMaxwell, BGates, "Zed", "">>],
       body |-> [isnull |-> FALSE, text |-> <<>>]],
      [names_json |-> [kind |-> "list", list |-> <<Maxwell, "Jeff", Unhashable, BGates, GMaxwell>>],
       body |-> [isnull |-> FALSE, text |-> <<"o", "k">>]],
      [names_json |-> [kind |-> "null", list |-> <<>>],
       body |-> [isnull |-> TRUE, text |-> <<>>]],
      [names_json |-> [kind |-> "invalid", list |-> <<>>],
       body |-> [isnull |-> FALSE, text |-> <<"o", "k">>]] }

\* dict.get(key): None when the key is missing.
DictGet(d, key) == IF key \in DOMAIN d THEN d[key] ELSE NULL

\* consolidate_name without the test for the sentinel.
consolidate_name_keep_none(name) ==
    IF name \in {NULL, ""} THEN NULL
    ELSE LET canonical == DictGet(name_mapping, name)
         IN  IF canonical = NULL THEN NULL
             ELSE IF canonical \in EXCLUDED_NAMES \/ name \in EXCLUDED_NAMES THEN NULL
             ELSE canonical

consolidate_name(name) ==
    IF name \in {NULL, ""} THEN NULL
    ELSE LET canonical == DictGet(name_mapping, name)
         IN  IF canonical = NONE \/ canonical = NULL THEN NULL
             ELSE IF canonical \in EXCLUDED_NAMES \/ name \in EXCLUDED_NAMES THEN NULL
             ELSE canonical

RECURSIVE PersonsFrom(_, _, _)
\* for name in names: ... all_persons.add(consolidated); the bare except
\* around the loop ends it at the first element that raises.
PersonsFrom(names, k, acc) ==
    IF k > Len(names) THEN acc
    ELSE IF names[k] = Unhashable THEN acc
    ELSE LET consolidated == consolidate_name(names[k])
         IN  PersonsFrom(names, k + 1,
                IF consolidated \notin {NULL, ""} /\ consolidated # "Jeffrey Epstein"
                THEN acc \cup {consolidated} ELSE acc)

\* all_persons of one row: "if names_json:" is false for NULL, json.loads
\* raises on text that is not JSON.
AllPersons(email) ==
    IF email.names_json.kind = "list"
    THEN PersonsFrom(email.names_json.list, 1, {})
    ELSE {}

\* Counter lookups and updates.
CounterGet(c, key) == IF key \in DOMAIN c THEN c[key] ELSE 0

\* for p in all_persons: person_counts[p] += 1
IncAll(c, keys) ==
    [x \in DOMAIN c \cup keys |-> CounterGet(c, x) + IF x \in keys THEN 1 ELSE 0]

\* person_counts after one more row.
CountRow(c, email) == IncAll(c, AllPersons(email))

\* The threshold of valid_persons.
MinOccurrences == 4

\* The first characters of the body kept as excerpt.
ExcerptLen == 80

\* The number of excerpts kept per edge.
MaxExamples == 3

\* The weight an edge needs to enter the graph.
MinEdgeWeight == 1

Min(a, b) == IF a < b THEN a ELSE b

\* (body or "")[:80].replace("\n", " ")
Excerpt(body) ==
    LET text == IF body.isnull THEN <<>> ELSE body.text
        cut == SubSeq(text, 1, Min(ExcerptLen, Len(text)))
    IN  [k \in DOMAIN cut |-> IF cut[k] = "\n" THEN " " ELSE cut[k]]

\* The persons of a row in descending order.
ReverseSortedList(S) ==
    CHOOSE l \in [1..Cardinality(S) -> S] :
        \A i, j \in 1..Cardinality(S) : i < j => StrLess(l[j], l[i])

\* sorted(persons_in_email)
SortedList(S) ==
    CHOOSE l \in [1..Cardinality(S) -> S] :
        \A i, j \in 1..Cardinality(S) : i < j => StrLess(l[i], l[j])

\* itertools.combinations(persons_list, 2)
Combinations2(l) ==
    {<<l[q[1]], l[q[2]]>> : q \in {r \in (DOMAIN l) \X (DOMAIN l) : r[1] < r[2]}}

\* An excerpt list that takes every non-empty excerpt.
AddExampleUncapped(examples, excerpt) ==
    IF excerpt # <<>> THEN Append(examples, excerpt) ELSE examples

\* if excerpt and len(edge_examples[(p1, p2)]) < 3: append
AddExample(examples, excerpt) ==
    IF excerpt # <<>> /\ Len(examples) < MaxExamples
    THEN Append(examples, excerpt) ELSE examples

ExamplesGet(d, key) == IF key \in DOMAIN d THEN d[key] ELSE <<>>

\* The pairs of one row in the second loop.
PairsOf(row) ==
    Combinations2(SortedList({p \in row.all_persons : p \in valid_persons}))

netIdle == UNCHANGED <<consVars, unique_names, auxVars>>

\* One iteration of "for email in emails" (person counts).
ProcessEmail ==
    /\ npc = "count"
    /\ email_i < Len(emails)
    /\ LET email == emails[email_i + 1]
       IN  /\ email_persons' = Append(email_persons,
                 [thread_id |-> email.thread_id, body |-> email.body,
                  all_persons |-> AllPersons(email)])
           /\ person_counts' = CountRow(person_counts, email)
    /\ email_i' = email_i + 1
    /\ UNCHANGED <<name_mapping, emails, npc, valid_persons, edges, edge_examples,
                   G, out_edges, out_nodes>>
    /\ netIdle

\* valid_persons = {p for p, count in person_counts.items() if count >= 4}
FilterValid ==
    /\ npc = "count"
    /\ email_i = Len(emails)
    /\ valid_persons' = {p \in DOMAIN person_counts : person_counts[p] >= MinOccurrences}
    /\ npc' = "edges"
    /\ email_i' = 0
    /\ UNCHANGED <<name_mapping, emails, person_counts, email_persons, edges,
                   edge_examples, G, out_edges, out_nodes>>
    /\ netIdle

\* One iteration of "for thread_id, body, all_persons in email_persons".
BuildEdges ==
    /\ npc = "edges"
    /\ email_i < Len(email_persons)
    /\ LET row == email_persons[email_i + 1]
           pairs == PairsOf(row)
       IN  /\ edges' = IncAll(edges, pairs)
           /\ edge_examples' =
                 [key \in DOMAIN edge_examples \cup {pr \in pairs : Excerpt(row.body) # <<>>} |->
                    IF key \in pairs
                    THEN AddExample(ExamplesGet(edge_examples, key), Excerpt(row.body))
                    ELSE edge_examples[key]]
    /\ email_i' = email_i + 1
    /\ UNCHANGED <<name_mapping, emails, npc, person_counts, email_persons,
                   valid_persons, G, out_edges, out_nodes>>
    /\ netIdle

\* G = nx.Graph(); add_edge for weight >= 1; remove isolates; node sizes.
CreateGraph ==
    /\ npc = "edges"
    /\ email_i = Len(email_persons)
    /\ LET kept == {key \in DOMAIN edges : edges[key] >= MinEdgeWeight}
           ends == {{key[1], key[2]} : key \in kept}
           gedges == {[ends |-> e,
                       weight |-> edges[CHOOSE key \in kept : {key[1], key[2]} = e]]
                      : e \in ends}
           touched == UNION ends
           isolates == {n \in touched : \A e \in ends : n \in e => e = {n}}
       IN  G' = [nodes |-> touched \ isolates, edges |-> gedges, community |-> <<>>]
    /\ npc' = "export"
    /\ UNCHANGED <<name_mapping, emails, email_i, person_counts, email_persons,
                   valid_persons, edges, edge_examples, out_edges, out_nodes>>
    /\ netIdle

RECURSIVE Join(_)
\* " | ".join(edge_examples[(p1, p2)])
Join(list) ==
    IF list = <<>> THEN <<>>
    ELSE IF Len(list) = 1 THEN list[1]
    ELSE list[1] \o <<" ", "|", " ">> \o Join(Tail(list))

Degree(g, n) == Cardinality({e \in g.edges : n \in e.ends})

\* The seed and the iteration bound handed to la.find_partition.
Seed == 42

NIterations == 100

\* The nodes of g that a path of edges joins to n.
RECURSIVE ReachFrom(_, _)
ReachFrom(g, S) ==
    LET T == S \cup {n \in g.nodes : \E e \in g.edges : n \in e.ends /\ e.ends \cap S # {}}
    IN  IF T = S THEN S ELSE ReachFrom(g, T)

LeastName(S) == CHOOSE n \in S : \A o \in S : o = n \/ StrLess(n, o)

\* The lists of the blocks, largest first, in which blocks of one size are
\* in ascending (up = TRUE) or descending order of their least names.
BlockList(blocks, up) ==
    CHOOSE part \in [1..Cardinality(blocks) -> blocks] :
       \A i, j \in 1..Cardinality(blocks) :
          i < j => \/ Cardinality(part[i]) > Cardinality(part[j])
                   \/ /\ Cardinality(part[i]) = Cardinality(part[j])
                      /\ IF up THEN StrLess(LeastName(part[i]), LeastName(part[j]))
                               ELSE StrLess(LeastName(part[j]), LeastName(part[i]))

\* A partition whose random generator is not started from the seed: the
\* order of communities of one size follows what the database held.
find_partition_unseeded(g, n_iterations, seed) ==
    BlockList({ReachFrom(g, {n}) : n \in g.nodes}, out_nodes = {})

\* la.find_partition(ig_graph, la.ModularityVertexPartition, n_iterations,
\* seed): the list of communities, largest first.  On the graphs of this
\* model (connected components of at most three nodes, components of equal
\* weight) the partition of best modularity is the one into connected
\* components; the random generator, started from the seed, settles the
\* order of communities of one size.
find_partition(g, n_iterations, seed) ==
    BlockList({ReachFrom(g, {n}) : n \in g.nodes}, seed % 2 = 0)

\* for cluster_id, members in enumerate(part): ... ["community"] = cluster_id
Membership(part) ==
    [n \in UNION Range(part) |-> (CHOOSE i \in DOMAIN part : n \in part[i]) - 1]

\* The detection runs on every graph.
AnyGraph(g) == TRUE

\* G.number_of_nodes() > 0
HasNodes(g) == g.nodes # {}

\* "if G.number_of_nodes() > 0": Leiden community detection.
DetectCommunities ==
    /\ npc = "export"
    /\ HasNodes(G)
    /\ G' = [G EXCEPT !.community = Membership(find_partition(G, NIterations, Seed))]
    /\ npc' = "save"
    /\ UNCHANGED <<name_mapping, emails, email_i, person_counts, email_persons,
                   valid_persons, edges, edge_examples, out_edges, out_nodes>>
    /\ netIdle

\* Every node is written with community 0.
CommunityGetDefault(g, n) == 0

\* G.nodes[node].get("community", 0)
CommunityGet(g, n) == IF n \in DOMAIN g.community THEN g.community[n] ELSE 0

\* "Save to database": the two tables are dropped and written.
Export ==
    /\ npc = "save"
    /\ out_edges' = {[source |-> key[1], target |-> key[2], weight |-> edges[key],
                      examples |-> Join(ExamplesGet(edge_examples, key))]
                     : key \in {k \in DOMAIN edges : k[1] \in G.nodes /\ k[2] \in G.nodes}}
    /\ out_nodes' = {[canonical_name |-> n, occurrences |-> CounterGet(person_counts, n),
                      degree |-> Degree(G, n), community |-> CommunityGet(G, n)]
                     : n \in G.nodes}
    /\ npc' = "end"
    /\ UNCHANGED <<name_mapping, emails, email_i, person_counts, email_persons,
                   valid_persons, edges, edge_examples, G>>
    /\ netIdle

\* A graph without nodes: nothing is written.
ExportNothing ==
    /\ npc = "export"
    /\ ~HasNodes(G)
    /\ npc' = "end"
    /\ UNCHANGED <<name_mapping, emails, email_i, person_counts, email_persons,
                   valid_persons, edges, edge_examples, G, out_edges, out_nodes>>
    /\ netIdle

\* The tables FINAL_5_network_edges and FINAL_5_network_nodes before the
\* run: absent, or left by a run over earlier extraction data.
PriorExports ==
    { [edges |-> {}, nodes |-> {}],
      [edges |-> {[source |-> BGates, target |-> "Leon Black", weight |-> 4,
                   examples |-> <<"o", "k">>]},
       nodes |-> {[canonical_name |-> BGates, occurrences |-> 4, degree |-> 1,
                   community |-> 0],
                  [canonical_name |-> "Leon Black", occurrences |-> 4, degree |-> 1,
                   community |-> 0]}] }

\* The state after the two SELECTs of main.
netInit ==
    /\ name_mapping \in NameMappings
    /\ \E rows \in [1..NumThreads -> ThreadMenu] :
          emails = [k \in 1..NumThreads |->
                      [thread_id |-> k, names_json |-> rows[k].names_json,
                       body |-> rows[k].body]]
    /\ npc = "count" /\ email_i = 0
    /\ person_counts = <<>> /\ email_persons = <<>> /\ valid_persons = {}
    /\ edges = <<>> /\ edge_examples = <<>> /\ G = [nodes |-> {}, edges |-> {}, community |-> <<>>]
    /\ \E prior \in PriorExports : out_edges = prior.edges /\ out_nodes = prior.nodes

\* build_network.py is not running.
netFrozen ==
    /\ unique_names = [exists |-> TRUE, occurrences |-> <<>>]
    /\ name_mapping = <<>> /\ emails = <<>> /\ npc = "off" /\ email_i = 0
    /\ person_counts = <<>> /\ email_persons = <<>> /\ valid_persons = {}
    /\ edges = <<>> /\ edge_examples = <<>> /\ G = [nodes |-> {}, edges |-> {}, community |-> <<>>]
    /\ out_edges = {} /\ out_nodes = {}

\* No consolidation script is running; the table is the one build_network
\* reads its mapping from.
consFrozen ==
    /\ tbl = [r \in RawNames |-> [F2 |-> r, F2c |-> r, F2d |-> r]]
    /\ cols = {"F2", "F2c", "F2d"}
    /\ stage = 3
    /\ pc = "idle" /\ run_id = NULL /\ n_batches = 0 /\ batch_i = 0
    /\ all_changes = <<>> /\ batch_log = <<>>

----------------------------------------------------------------------------
(* run_name_consolidation.py: the first pass, RUN_ID F2 *)

\* Names per oracle batch of the first pass (BATCH_SIZE = 500 in the source).
BatchSizeV1 == 2

\* load_names: the rows in the order of their ids, which is the sorted order
\* in which create_unique_names inserted them.
V1Names == <<"Landon Thomas", "Landon Thomas Jr.", "Thomas Landon">>

\* batches = [names[i:i + BATCH_SIZE] for i in range(0, len(names), BATCH_SIZE)]
V1Batch(i) ==
    SubSeq(V1Names, (i - 1) * BatchSizeV1 + 1, Min(i * BatchSizeV1, Len(V1Names)))

\* The dicts {canonical: [variant, ...]} the oracle may answer a batch with,
\* as lists of entries: at most two canonical names, the variants taken
\* from the batch or, wrongly, from outside it.
V1Entries(batch) ==
    {[canonical |-> c, variants |-> v] :
        c \in {"Landon Thomas", NONE},
        v \in {<<n>> : n \in Range(batch)} \cup {batch, <<"Thomas Landon">>}}

V1Responses(batch) ==
    {<<>>} \cup {<<x>> : x \in V1Entries(batch)}
      \cup {r \in {<<x, y>> : x, y \in V1Entries(batch)} :
              r[1].canonical # r[2].canonical}

RECURSIVE V1MergeFrom(_, _, _)
\* for canonical, variants in result.items(): extend the list of a canonical
\* already in consolidation_map, else add the entry.
V1MergeFrom(map, result, k) ==
    IF k > Len(result) THEN map
    ELSE LET r == result[k]
             at == {i \in DOMAIN map : map[i].canonical = r.canonical}
         IN  V1MergeFrom(
                IF at = {} THEN Append(map, r)
                ELSE [i \in DOMAIN map |->
                        IF i \in at
                        THEN [map[i] EXCEPT !.variants = map[i].variants \o r.variants]
                        ELSE map[i]],
                result, k + 1)

V1Merge(map, result) == V1MergeFrom(map, result, 1)

\* variant_to_canonical[variant] = canonical, in the order of the entries:
\* the last entry that lists the name wins; NULL when no entry lists it.
VariantToCanonical(map, name) ==
    LET at == {i \in DOMAIN map : name \in Range(map[i].variants)}
    IN  IF at = {} THEN NULL
        ELSE map[CHOOSE i \in at : \A j \in at : j <= i].canonical

\* canonical = variant_to_canonical.get(name, name)
V1Canonical(map, name) ==
    IF VariantToCanonical(map, name) = NULL THEN name
    ELSE VariantToCanonical(map, name)

\* call_sonnet of the first pass: one POST; None for every failure.
V1CallRecord(kind) == [kind |-> kind, calls |-> 1, sleeps |-> <<>>]

\* run_consolidation up to the batch loop.
StartV1 ==
    /\ pc = "idle"
    /\ pc' = "collect"
    /\ run_id' = "F2"
    /\ n_batches' = CeilDiv(Len(V1Names), BatchSizeV1)
    /\ batch_i' = 0
    /\ all_changes' = <<>>
    /\ batch_log' = <<>>
    /\ UNCHANGED <<tbl, cols, stage>>
    /\ UNCHANGED <<netVars, unique_names, auxVars>>

\* One iteration of the batch loop: "if result:" merges the answer into
\* consolidation_map, else the batch is printed as FAILED.
CallSonnetV1 ==
    /\ pc = "collect" /\ run_id = "F2"
    /\ batch_i < n_batches
    /\ \E kind \in OracleKinds \ {"rate"} :
          /\ \E result \in V1Responses(V1Batch(batch_i + 1)) :
                /\ kind # "ok" => result = <<>>
                /\ all_changes' = V1Merge(all_changes, result)
          /\ batch_log' = Append(batch_log, V1CallRecord(kind))
    /\ batch_i' = batch_i + 1
    /\ UNCHANGED <<tbl, cols, stage, pc, run_id, n_batches>>
    /\ UNCHANGED <<netVars, unique_names, auxVars>>

\* "if not consolidation_map: return None, 0": nothing is written.
GiveUpV1 ==
    /\ pc = "collect" /\ run_id = "F2"
    /\ batch_i = n_batches
    /\ all_changes = <<>>
    /\ pc' = "done"
    /\ UNCHANGED <<tbl, cols, stage, run_id, n_batches, batch_i, all_changes, batch_log>>
    /\ UNCHANGED <<netVars, unique_names, auxVars>>

\* ALTER TABLE ADD COLUMN "canonical_name [F2]" (ignored when it exists) and
\* the UPDATE of every row.
ApplyV1 ==
    /\ pc = "collect" /\ run_id = "F2"
    /\ batch_i = n_batches
    /\ all_changes # <<>>
    /\ cols' = cols \cup {"F2"}
    /\ tbl' = [n \in DOMAIN tbl |-> [tbl[n] EXCEPT !.F2 = V1Canonical(all_changes, n)]]
    /\ pc' = "done"
    /\ UNCHANGED <<stage, run_id, n_batches, batch_i, all_changes, batch_log>>
    /\ UNCHANGED <<netVars, unique_names, auxVars>>

\* FINAL_3_unique_names as create_unique_names made it: no canonical column.
v1Init ==
    /\ tbl = [n \in RawNames |-> [F2 |-> NULL, F2c |-> NULL, F2d |-> NULL]]
    /\ cols = {}
    /\ stage = 0
    /\ pc = "idle" /\ run_id = NULL /\ n_batches = 0 /\ batch_i = 0
    /\ all_changes = <<>> /\ batch_log = <<>>

InitV1 == v1Init /\ netFrozen /\ auxFrozen

NextV1 ==
    \/ StartV1
    \/ CallSonnetV1
    \/ GiveUpV1
    \/ ApplyV1
    \/ Exit

SpecV1 == InitV1 /\ [][NextV1]_vars

----------------------------------------------------------------------------
(* create_unique_names.py *)

\* str.strip() on the names of the model.
Strip(x) == IF x = " Zed " THEN "Zed" ELSE x

\* The rows of the extraction table create_unique_names may read.
CUMenu ==
    ThreadMenu \cup
    { [names_json |-> [kind |-> "list", list |-> <<" Zed ", "Zed", BGates>>],
       body |-> [isnull |-> FALSE, text |-> <<"o", "k">>]] }

RECURSIVE StrippedFrom(_, _, _)
\* for name in names: if name and name.strip(): ... ; name.strip() raises on
\* an element that is no string and the bare except ends the loop.
StrippedFrom(names, k, acc) ==
    IF k > Len(names) THEN acc
    ELSE IF names[k] = Unhashable THEN acc
    ELSE StrippedFrom(names, k + 1,
            IF names[k] \notin {NULL, ""} /\ Strip(names[k]) # ""
            THEN acc \cup {Strip(names[k])} ELSE acc)

\* The names create_unique_names reads from one row.
NamesOfRow(email) ==
    IF email.names_json.kind = "list"
    THEN StrippedFrom(email.names_json.list, 1, {})
    ELSE {}

\* name_counts: name -> number of thread_ids in name_threads[name].
name_counts ==
    [n \in UNION {NamesOfRow(emails[k]) : k \in DOMAIN emails} |->
        Cardinality({k \in DOMAIN emails : n \in NamesOfRow(emails[k])})]

\* UPDATE ... SET occurrences = ? WHERE name_extracted = ?, per counted name.
UpdateInPlace(old, counts) ==
    [n \in DOMAIN old |-> IF n \in DOMAIN counts THEN counts[n] ELSE old[n]]

\* FINAL_3_unique_names before the run: absent, or left by a run over
\* earlier extraction data.
PriorUniqueNames ==
    { [exists |-> FALSE, occurrences |-> <<>>],
      [exists |-> TRUE,
       occurrences |-> [n \in {BGates, "Leon Black"} |-> 4]] }

\* main of create_unique_names.py.
CreateUniqueNames ==
    /\ npc = "names"
    /\ unique_names' =
          [exists |-> TRUE,
           occurrences |-> IF unique_names.exists
                           THEN UpdateInPlace(unique_names.occurrences, name_counts)
                           ELSE name_counts]
    /\ npc' = "names_done"
    /\ UNCHANGED <<name_mapping, emails, email_i, person_counts, email_persons,
                   valid_persons, edges, edge_examples, G, out_edges, out_nodes>>
    /\ UNCHANGED <<consVars, auxVars>>

\* The extraction table is filled; create_unique_names is about to run.
cuInit ==
    /\ \E rows \in [1..NumThreads -> CUMenu] :
          emails = [k \in 1..NumThreads |->
                      [thread_id |-> k, names_json |-> rows[k].names_json,
                       body |-> rows[k].body]]
    /\ unique_names \in PriorUniqueNames
    /\ name_mapping = <<>> /\ npc = "names" /\ email_i = 0
    /\ person_counts = <<>> /\ email_persons = <<>> /\ valid_persons = {}
    /\ edges = <<>> /\ edge_examples = <<>>
    /\ G = [nodes |-> {}, edges |-> {}, community |-> <<>>]
    /\ out_edges = {} /\ out_nodes = {}

InitCU == cuInit /\ consFrozen /\ auxFrozen

NextCU == CreateUniqueNames

SpecCU == InitCU /\ [][NextCU]_vars

\* The number of threads in the runs that yield several communities.
NumThreadsWide == 8

\* Rows whose entities fall into two groups that never meet.
WideMenu ==
    { [names_json |-> [kind |-> "list", list |-> <<BGates, GMaxwell>>],
       body |-> [isnull |-> FALSE, text |-> <<"o", "k">>]],
      [names_json |-> [kind |-> "list", list |-> <<"Leon Black", Maxwell>>],
       body |-> [isnull |-> FALSE, text |-> <<"h", "i">>]],
      [names_json |-> [kind |-> "null", list |-> <<>>],
       body |-> [isnull |-> TRUE, text |-> <<>>]] }

\* The state after the two SELECTs of main, every name its own canonical.
comInit ==
    /\ name_mapping = [n \in {BGates, GMaxwell, "Leon Black", Maxwell} |-> n]
    /\ \E rows \in [1..NumThreadsWide -> WideMenu] :
          emails = [k \in 1..NumThreadsWide |->
                      [thread_id |-> k, names_json |-> rows[k].names_json,
                       body |-> rows[k].body]]
    /\ npc = "count" /\ email_i = 0
    /\ person_counts = <<>> /\ email_persons = <<>> /\ valid_persons = {}
    /\ edges = <<>> /\ edge_examples = <<>>
    /\ G = [nodes |-> {}, edges |-> {}, community |-> <<>>]
    /\ \E prior \in PriorExports : out_edges = prior.edges /\ out_nodes = prior.nodes

Init == consInit /\ netFrozen /\ auxFrozen

Spec == Init /\ [][Next]_vars

\* The occurrences column is not part of the runs of build_network.
cuFrozen == unique_names = [exists |-> TRUE, occurrences |-> <<>>]

InitNet == netInit /\ consFrozen /\ cuFrozen /\ auxFrozen

NextNet ==
    \/ ProcessEmail
    \/ FilterValid
    \/ BuildEdges
    \/ CreateGraph
    \/ DetectCommunities
    \/ Export
    \/ ExportNothing

SpecNet == InitNet /\ [][NextNet]_vars

InitCom == comInit /\ consFrozen /\ cuFrozen /\ auxFrozen

SpecCom == InitCom /\ [][NextNet]_vars

----------------------------------------------------------------------------
(* Claims about the refinement passes (checked under Spec) *)

\* The step in which a pass writes its UPDATEs.
IsApplyStep == pc = "collect" /\ pc' = "done"

\* The generation columns older than the one pass id produces.
EarlierColumns(id) ==
    CASE id = "F2b" -> {"F2"}
      [] id = "F2c" -> {"F2"}
      [] id = "F2d" -> {"F2", "F2c"}

Values(d) == {d[k][2] : k \in DOMAIN d}

\* The orders in which the entries of dict d can be applied.
Orders(d) ==
    {s \in [DOMAIN d -> Range(d)] : \A i, j \in DOMAIN d : i # j => s[i] # s[j]}

C2_ApplyIdempotent ==
    pc = "done" =>
        ApplyChanges(tbl, TargetColumn(run_id), all_changes) = tbl

\* C3: the generation a pass produces is the same for every order in which
\* the entries of all_changes (distinct old names) are applied.
C3_OrderIndependent ==
    (pc = "collect" /\ batch_i = n_batches) =>
        \A order \in Orders(all_changes) :
            ApplyChanges(Prepared(tbl, run_id), TargetColumn(run_id), order)
              = ApplyChanges(Prepared(tbl, run_id), TargetColumn(run_id), all_changes)

\* Every raw name under A or B before the UPDATEs is under C after them, and
\* none is left under A or B.
MergedInto(A, B, C) ==
    LET col == TargetColumn(run_id)
        before == Prepared(tbl, run_id)
    IN  /\ \A r \in RawNames : before[r][col] \in {A, B} => tbl'[r][col] = C
        /\ \A r \in RawNames : tbl'[r][col] \notin {A, B}

C5_FirstAssignmentKept ==
    [][(pc = "collect" /\ pc' = "collect") =>
         \A key \in Keys(all_changes) :
            Lookup(all_changes', key) = Lookup(all_changes, key)]_vars

----------------------------------------------------------------------------
(* Claims about the co-occurrence network, checked under SpecNet. *)

\* The rows the first loop has read.
Counted == 1..Len(email_persons)

\* The rows the second loop has read.
Paired == IF npc = "count" THEN {} ELSE IF npc = "edges" THEN 1..email_i ELSE Counted

\* The string elements of the names list of thread k (none when the field
\* is NULL or is not JSON).
Mentions(k) ==
    IF emails[k].names_json.kind = "list"
    THEN Range(emails[k].names_json.list) \ {Unhashable}
    ELSE {}

HasUnhashable(k) ==
    /\ emails[k].names_json.kind = "list"
    /\ Unhashable \in Range(emails[k].names_json.list)

\* Every name that stands for an entity somewhere in the network.
NetworkEntities ==
    UNION {email_persons[k].all_persons : k \in Counted}
      \cup DOMAIN person_counts \cup valid_persons
      \cup {key[1] : key \in DOMAIN edges} \cup {key[2] : key \in DOMAIN edges}
      \cup {key[1] : key \in DOMAIN edge_examples}
      \cup {key[2] : key \in DOMAIN edge_examples}
      \cup G.nodes \cup UNION {e.ends : e \in G.edges}
      \cup {r.source : r \in out_edges} \cup {r.target : r \in out_edges}
      \cup {r.canonical_name : r \in out_nodes}

\* A raw name that may stand for an entity: it is not excluded and its
\* canonical value is neither missing, the sentinel, nor excluded.
Eligible(raw) ==
    /\ raw \in DOMAIN name_mapping
    /\ raw \notin EXCLUDED_NAMES
    /\ name_mapping[raw] \notin {NONE} \cup EXCLUDED_NAMES

\* C6: a raw name whose canonical value is the sentinel "None", or whose
\* raw or canonical form is in the exclusion set, contributes no entity:
\* no entity of the network is the sentinel or an excluded name, and every
\* entity of a thread is the canonical value of an eligible name mentioned
\* in that thread.
C6_NoSentinelOrExcludedEntity ==
    /\ NetworkEntities \cap ({NONE, NULL, ""} \cup EXCLUDED_NAMES) = {}
    /\ \A k \in Counted :
          email_persons[k].all_persons \subseteq
             {name_mapping[raw] : raw \in {x \in Mentions(k) : Eligible(x)}}

\* The run is over; a counted thread mentions an excluded raw name whose
\* canonical value is a person, and that person is not among the thread's
\* entities; another thread mentions a name whose canonical value is the
\* sentinel and has entities.
C6_Witness ==
    /\ npc = "end" /\ DOMAIN person_counts # {}
    /\ name_mapping["Jeff"] = BGates
    /\ name_mapping[Maxwell] = NONE
    /\ \E k \in Counted :
          "Jeff" \in Mentions(k) /\ BGates \notin email_persons[k].all_persons
    /\ \E k \in Counted : Maxwell \in Mentions(k) /\ email_persons[k].all_persons # {}

\* C7: a raw name that is absent from the mapping, is not empty and is not
\* excluded contributes the entity equal to its own string to the threads
\* that mention it.
C7_AbsentNameIsOwnEntity ==
    \A k \in Counted :
        \A raw \in Mentions(k) :
            (raw \notin {NULL, ""} /\ raw \notin DOMAIN name_mapping
               /\ raw \notin EXCLUDED_NAMES /\ ~HasUnhashable(k))
            => raw \in email_persons[k].all_persons

\* The entity a mention stands for under the mapping (NULL when none).
EntityOf(raw) == consolidate_name(raw)

\* C8: once the rows are counted, the occurrence count of an entity is the
\* number of distinct threads that mention a raw name mapping to it.
C8_CountIsDistinctThreads ==
    (npc # "count" \/ email_i = Len(emails)) =>
        \A e \in {GMaxwell, Maxwell, BGates} :
            CounterGet(person_counts, e) =
               Cardinality({k \in DOMAIN emails : \E raw \in Mentions(k) : EntityOf(raw) = e})

\* The threads read by the second loop whose entity sets hold both a and b.
CoThreads(a, b) ==
    {k \in Paired : {a, b} \subseteq email_persons[k].all_persons}

\* C9: for two surviving entities the stored weight of their edge is the
\* number of distinct threads whose entity sets contain both; the edge has
\* at most three excerpts, each the excerpt of one of those threads.
C9_WeightIsCoThreads ==
    npc # "count" =>
        \A a, b \in valid_persons :
            StrLess(a, b) =>
                /\ CounterGet(edges, <<a, b>>) = Cardinality(CoThreads(a, b))
                /\ Len(ExamplesGet(edge_examples, <<a, b>>)) <= 3
                /\ \A i \in DOMAIN ExamplesGet(edge_examples, <<a, b>>) :
                      \E k \in CoThreads(a, b) :
                         /\ Excerpt(emails[k].body) # <<>>
                         /\ edge_examples[<<a, b>>][i] = Excerpt(emails[k].body)
                /\ \A r \in out_edges :
                      (r.source = a /\ r.target = b) =>
                         /\ r.weight = Cardinality(CoThreads(a, b))
                         /\ r.examples = Join(ExamplesGet(edge_examples, <<a, b>>))

\* An exported edge of four threads with three excerpts, one of them cut
\* to 80 characters and one shorter; one of the threads has a body of 81
\* characters.
C9_Witness ==
    /\ npc = "end"
    /\ \E r \in out_edges :
          LET examples == ExamplesGet(edge_examples, <<r.source, r.target>>)
          IN  /\ r.weight = 4
              /\ Len(examples) = 3
              /\ \E i \in 1..3 : Len(examples[i]) = 80
              /\ \E i \in 1..3 : Len(examples[i]) < 80
              /\ r.examples = Join(examples)
    /\ \E k \in Counted : Len(emails[k].body.text) = 81

\* The keys under which edges are stored.
EdgeKeys == DOMAIN edges \cup DOMAIN edge_examples

\* C10: every edge key is an ordered pair whose first name is strictly
\* less than its second; there is no self-loop and no second entry for the
\* same unordered pair, in the counter, the graph or the exported table.
C10_EdgeKeysStrictlyOrdered ==
    /\ \A key \in EdgeKeys : StrLess(key[1], key[2])
    /\ \A k1, k2 \in EdgeKeys : {k1[1], k1[2]} = {k2[1], k2[2]} => k1 = k2
    /\ \A e \in G.edges : Cardinality(e.ends) = 2
    /\ \A e1, e2 \in G.edges : e1.ends = e2.ends => e1 = e2
    /\ \A r \in out_edges : StrLess(r.source, r.target)
    /\ \A r1, r2 \in out_edges :
          {r1.source, r1.target} = {r2.source, r2.target} => r1 = r2

\* Three entities survive and every pair of them is an exported edge.
C10_Witness ==
    /\ npc = "end"
    /\ Cardinality(valid_persons) = 3
    /\ Cardinality(out_edges) = 3
    /\ Cardinality(G.edges) = 3

\* Every name that can stand for an entity in a run or in an earlier export.
EntityUniverse == NetworkEntities \cup {GMaxwell, Maxwell, BGates}

\* The names listed in FINAL_5_network_nodes.
ExportedNodes == {r.canonical_name : r \in out_nodes}

\* The weight counted for an unordered pair.
PairWeight(a, b) == CounterGet(edges, <<a, b>>) + CounterGet(edges, <<b, a>>)

\* An entity of the filtered, isolate-free graph.
IsFilteredNode(e) ==
    /\ CounterGet(person_counts, e) >= MinOccurrences
    /\ \E o \in EntityUniverse \ {e} :
          /\ CounterGet(person_counts, o) >= MinOccurrences
          /\ PairWeight(e, o) >= MinEdgeWeight

\* C11: when build_network has ended, an entity is an exported node iff its
\* occurrence count reaches min_occurrences and it has an edge of weight
\* min_edge_weight or more to another such entity; a pair is an exported
\* edge iff both endpoints are exported nodes and its weight reaches
\* min_edge_weight.
C11_ExportIsFilteredGraph ==
    npc = "end" =>
        /\ \A e \in EntityUniverse : e \in ExportedNodes <=> IsFilteredNode(e)
        /\ \A a, b \in EntityUniverse :
              a # b =>
                 ((\E r \in out_edges : {r.source, r.target} = {a, b})
                    <=> (/\ a \in ExportedNodes /\ b \in ExportedNodes
                         /\ PairWeight(a, b) >= MinEdgeWeight))

----------------------------------------------------------------------------
(* Claims about community detection, checked under SpecCom. *)

\* Community detection has run in this run of build_network.
Detected == npc \in {"save", "end"} /\ G.nodes # {}

\* The list of communities the detection returned for the graph.
Part == find_partition(G, NIterations, Seed)

\* C12: after community detection every node of the graph has exactly one
\* community id, the communities are pairwise disjoint and cover the nodes,
\* and every node is exported once, with the id the partition gave it.
C12_EveryNodeOneCommunity ==
    Detected =>
        /\ DOMAIN G.community = G.nodes
        /\ UNION Range(Part) = G.nodes
        /\ \A i, j \in DOMAIN Part : i # j => Part[i] \cap Part[j] = {}
        /\ \A n \in G.nodes : \A i \in DOMAIN Part :
              n \in Part[i] <=> G.community[n] = i - 1
        /\ npc = "end" =>
              /\ ExportedNodes = G.nodes
              /\ \A n \in G.nodes :
                    {r.community : r \in {x \in out_nodes : x.canonical_name = n}}
                       = {G.community[n]}

\* Four nodes are exported in two communities of different ids.
C12_Witness ==
    /\ npc = "end"
    /\ Cardinality(out_nodes) = 4
    /\ {r.community : r \in out_nodes} = {0, 1}
    /\ Len(Part) = 2

\* The number of threads whose entity set, under the mapping, holds e.
ThreadCount(e) == Cardinality({k \in DOMAIN emails : e \in AllPersons(emails[k])})

\* The filtered graph as the threads and the mapping alone determine it.
InputGraph ==
    LET valid == {e \in EntityUniverse : ThreadCount(e) >= MinOccurrences}
        ends == {pr \in SUBSET valid :
                    /\ Cardinality(pr) = 2
                    /\ \E k \in DOMAIN emails : pr \subseteq AllPersons(emails[k])}
    IN  [nodes |-> UNION ends,
         edges |-> {[ends |-> pr,
                     weight |-> Cardinality({k \in DOMAIN emails :
                                               pr \subseteq AllPersons(emails[k])})]
                    : pr \in ends},
         community |-> <<>>]

\* The node -> community id assignment of the threads and the mapping.
InputAssignment == Membership(find_partition(InputGraph, NIterations, Seed))

C14_EmptyGraphEndsNormally ==
    (npc \in {"export", "save", "end"} /\ (G.nodes = {} \/ G.edges = {})) =>
        /\ G.nodes = {} /\ G.edges = {}
        /\ G.community = <<>>
        /\ npc # "save"
        /\ npc = "export" => ENABLED ExportNothing

\* A run has ended on a graph without nodes although an entity survived
\* the occurrence filter.
C14_Witness ==
    /\ npc = "end"
    /\ G.nodes = {} /\ G.edges = {}
    /\ valid_persons # {}

----------------------------------------------------------------------------
(* Claims about oracle failures, checked under SpecV1 and Spec. *)

\* The batches of the running script whose oracle call failed.
FailedBatches == {i \in DOMAIN batch_log : batch_log[i].kind # "ok"}

\* C15: when the first pass has ended, the generation F2 exists and every
\* name of a batch whose oracle call failed is mapped to itself, for any
\* number of failed batches.
C15_FailedBatchKeepsIdentity ==
    (pc = "done" /\ run_id = "F2") =>
        /\ "F2" \in cols
        /\ \A i \in FailedBatches :
              \A n \in Range(V1Batch(i)) : tbl[n].F2 = n

\* The delays of a list grow from one attempt to the next.
Increasing(sl) == \A i, j \in DOMAIN sl : i < j => sl[i] < sl[j]

\* C16: a batch of a refinement pass whose oracle call failed was issued
\* again at least once, with growing delays between the attempts, before
\* it counted as failed.
C16_FailedCallIsReissued ==
    run_id \in {"F2b", "F2c", "F2d"} =>
        \A i \in FailedBatches :
            /\ batch_log[i].calls >= 2
            /\ Len(batch_log[i].sleeps) = batch_log[i].calls - 1
            /\ Increasing(batch_log[i].sleeps)

\* C17: a batch that the oracle answered with a rate-limit error was, after
\* the cooldown, issued exactly one more time.
C17_RateLimitRetriedOnce ==
    run_id \in {"F2b", "F2c", "F2d"} =>
        \A i \in DOMAIN batch_log :
            batch_log[i].kind = "rate" =>
                /\ batch_log[i].sleeps # <<>>
                /\ batch_log[i].calls = 2

----------------------------------------------------------------------------
(* Claims about malformed rows and reruns. *)

\* The entity data of thread k is missing or malformed: NULL, text that is
\* not JSON, or a list with an element that cannot be looked up.
Malformed(k) == emails[k].names_json.kind # "list" \/ HasUnhashable(k)

\* C18: a thread whose entity data is missing or malformed contributes no
\* entity to any occurrence count and no increment to any edge weight: its
\* entity set is empty.
C18_MalformedThreadContributesNothing ==
    \A k \in Counted : Malformed(k) => email_persons[k].all_persons = {}

\* The table in which the column of the running pass is a fresh copy of
\* its parent column.
FreshCopy(t, id) ==
    [r \in DOMAIN t |-> [t[r] EXCEPT ![TargetColumn(id)] = t[r][SourceColumn(id)]]]

\* C19: when pass F2c or F2d has completed, every raw name's value in the
\* new generation is its current value in the parent generation with the
\* changes of the pass applied, also when the column of the pass existed
\* before the pass ran.
C19_GenerationBuiltFromParent ==
    (pc = "done" /\ run_id \in {"F2c", "F2d"}) =>
        \A r \in RawNames :
            tbl[r][TargetColumn(run_id)]
              = ApplyChanges(FreshCopy(tbl, run_id), TargetColumn(run_id),
                             all_changes)[r][TargetColumn(run_id)]

\* The names present in the current extraction data.
DataNames ==
    {Strip(x) : x \in UNION {Mentions(k) : k \in DOMAIN emails}} \ {"", NULL}

\* The number of distinct threads of the current data that mention n.
DataCount(n) ==
    Cardinality({k \in DOMAIN emails : \E x \in Mentions(k) : Strip(x) = n})

\* C20: after create_unique_names has run, the stored names are exactly the
\* names present in the current extraction data and the stored count of
\* each is its number of distinct threads in that data; nothing is carried
\* over from an earlier run.
C20_CountsRecomputedFromScratch ==
    npc = "names_done" =>
        /\ DOMAIN unique_names.occurrences = DataNames
        /\ \A n \in DataNames : unique_names.occurrences[n] = DataCount(n)

----------------------------------------------------------------------------
(* The candidate matchers on lists of names (SpecMatch) *)

\* Longest list of names handed to a matcher.
MaxNames == 3

\* The names a matcher may be given.
MatchNames ==
    {"Thomas", "thomas", "Landon Thomas", "Landon Thomas Jr.", "Landon Smith Jr.",
     "Leon Black Thomas", "Landon Black Thomas", "Leon Landon Thomas"}

\* The lists the callers build: name_extracted is a key of its table and the
\* canonical names are SELECTed DISTINCT, so a list repeats no name; the
\* order of the rows is the database's.
NameLists ==
    UNION {{l \in [1..n -> MatchNames] : \A i, j \in 1..n : i # j => l[i] # l[j]}
           : n \in 0..MaxNames}

\* The orders in which the elements of set S can be met.
Orderings(S) ==
    {o \in [1..Cardinality(S) -> S] : \A i, j \in 1..Cardinality(S) : i # j => o[i] # o[j]}

IsSingleWord(name) == Len(Split(Strip(name))) = 1

IsMultiWord(name) == Len(Split(Strip(name))) >= 2

\* parts[-1].lower()
LastNameOf(multi) == Lower(Split(multi)[Len(Split(multi))])

\* single.lower() == last_name
SameLastName(single, multi) == Lower(single) = LastNameOf(multi)

\* single == parts[-1]: the comparison without the two lower() calls.
SameLastNameExactCase(single, multi) == single = Split(multi)[Len(Split(multi))]

RECURSIVE SelectNames(_, _, _)
\* The names of list l, from position k on, that are in set S, in list order.
SelectNames(l, k, S) ==
    IF k > Len(l) THEN <<>>
    ELSE IF l[k] \in S THEN <<l[k]>> \o SelectNames(l, k + 1, S)
         ELSE SelectNames(l, k + 1, S)

\* find_lastname_matches with the comparison of the source (exact = FALSE) or
\* without its lower() calls (exact = TRUE); dict(matches) has the keys that
\* were appended to.
LastnameMatchesBy(l, exact) ==
    LET clean == [k \in DOMAIN l |-> Strip(l[k])]
        single_words == SelectNames(clean, 1, {n \in Range(clean) : IsSingleWord(n)})
        multi_words == SelectNames(clean, 1, {n \in Range(clean) : IsMultiWord(n)})
        hits(single) == SelectNames(multi_words, 1,
                                    {m \in Range(multi_words) :
                                        IF exact THEN SameLastNameExactCase(single, m)
                                        ELSE SameLastName(single, m)})
    IN  [single \in {x \in Range(single_words) : hits(x) # <<>>} |-> hits(single)]

find_lastname_matches_exact_case(l) == LastnameMatchesBy(l, TRUE)

find_lastname_matches(l) == LastnameMatchesBy(l, FALSE)

\* The name1 of the pairs (name1, name2) that put names under group_key:
\* a pair is handled in the iteration of its smaller name (name1 >= name2 is
\* skipped).
Creators(l, key) ==
    {a \in Range(l) : \E b \in Range(l) :
        /\ StrLess(a, b)
        /\ tokenize_name(a) \cap tokenize_name(b) = key}

\* Position in list l of the first name1 that creates potential_groups[key].
CreatedAt(l, key) ==
    CHOOSE i \in DOMAIN l :
        /\ l[i] \in Creators(l, key)
        /\ \A j \in DOMAIN l : l[j] \in Creators(l, key) => i <= j

\* The insertion orders potential_groups can have for list l: "for name1 in
\* names" follows the list; within one name1 the partners are met in the
\* iteration order of the sets tokens1 and token_to_names[token], which the
\* interpreter's string hashing decides.
InsertionOrders(l) ==
    LET pg == PotentialGroups(Range(l))
    IN  {o \in Orderings(DOMAIN pg) :
            \A i, j \in DOMAIN o : i < j => CreatedAt(l, o[i]) <= CreatedAt(l, o[j])}

\* sorted(potential_groups.items(), key=lambda x: -len(x[1])): larger groups
\* first, groups of equal size in insertion order (the sort is stable).
SortedItems(pg, o) ==
    LET pos(key) == CHOOSE i \in DOMAIN o : o[i] = key
        before(a, b) ==
            \/ Cardinality(pg[a]) > Cardinality(pg[b])
            \/ Cardinality(pg[a]) = Cardinality(pg[b]) /\ pos(a) < pos(b)
    IN  [i \in DOMAIN o |->
            CHOOSE key \in Range(o) :
                Cardinality({x \in Range(o) : before(x, key)}) = i - 1]

RECURSIVE EmitAll(_, _, _, _)
\* The final loop without the seen_names filter.
EmitAll(pg, items, k, seen_names) ==
    IF k > Len(items) THEN <<>>
    ELSE <<pg[items[k]]>> \o EmitAll(pg, items, k + 1, seen_names)

RECURSIVE EmitInOrder(_, _, _, _)
\* The final loop: new_names are the names not in seen_names; a group of two
\* or more is appended and its names become seen.
EmitInOrder(pg, items, k, seen_names) ==
    IF k > Len(items) THEN <<>>
    ELSE LET new_names == pg[items[k]] \ seen_names
         IN  IF Cardinality(new_names) >= 2
             THEN <<new_names>> \o EmitInOrder(pg, items, k + 1, seen_names \cup new_names)
             ELSE EmitInOrder(pg, items, k + 1, seen_names)

\* find_potential_duplicates on list l when potential_groups was filled in
\* order o: the list of groups, each as the set of its names.
find_potential_duplicates(l, o) ==
    EmitInOrder(PotentialGroups(Range(l)), SortedItems(PotentialGroups(Range(l)), o), 1, {})

matchIdle == UNCHANGED <<consVars, netVars, unique_names, extVars, pipeVars, rel_rows>>

\* matches = find_lastname_matches(names)
FindLastnameMatches ==
    /\ ~lastname_matches.called
    /\ lastname_matches' = Returned(find_lastname_matches(input_names))
    /\ UNCHANGED <<input_names, potential_duplicates, suffix_duplicates>>
    /\ matchIdle

\* groups = find_potential_duplicates(canonical_names)
FindPotentialDuplicates ==
    /\ ~potential_duplicates.called
    /\ \E o \in InsertionOrders(input_names) :
          potential_duplicates' = Returned(find_potential_duplicates(input_names, o))
    /\ UNCHANGED <<input_names, lastname_matches, suffix_duplicates>>
    /\ matchIdle

\* groups = find_suffix_duplicates(canonical_names)
FindSuffixDuplicates ==
    /\ ~suffix_duplicates.called
    /\ suffix_duplicates' = Returned(find_suffix_duplicates(Range(input_names)))
    /\ UNCHANGED <<input_names, lastname_matches, potential_duplicates>>
    /\ matchIdle

\* A list of names has been loaded; no matcher has run on it.
matchInit ==
    /\ input_names \in NameLists
    /\ lastname_matches = NotCalled
    /\ potential_duplicates = NotCalled
    /\ suffix_duplicates = NotCalled

InitMatch == matchInit /\ consFrozen /\ netFrozen /\ extFrozen /\ pipeFrozen /\ relFrozen

NextMatch ==
    \/ FindLastnameMatches
    \/ FindPotentialDuplicates
    \/ FindSuffixDuplicates

SpecMatch == InitMatch /\ [][NextMatch]_vars

----------------------------------------------------------------------------
(* Claims about the candidate matchers, checked under SpecMatch. *)

\* The input names with two or more tokens whose final token equals single,
\* compared without regard to case.
FullNamesFor(single) ==
    {m \in Range(input_names) :
        /\ Len(Split(m)) >= 2
        /\ Lower(Split(m)[Len(Split(m))]) = Lower(single)}

\* C21: find_lastname_matches returns, for every input name of a single
\* token, exactly the input names of two or more tokens whose final token
\* equals it case-insensitively: all of them when there are several, no entry
\* when there is none, and no name of several tokens is a key.
C21_LastnameMatchesExact ==
    lastname_matches.called =>
        LET matches == lastname_matches.result
        IN  /\ \A key \in DOMAIN matches :
                  key \in Range(input_names) /\ Len(Split(key)) = 1
            /\ \A single \in Range(input_names) :
                  Len(Split(single)) = 1 =>
                      IF FullNamesFor(single) = {}
                      THEN single \notin DOMAIN matches
                      ELSE /\ single \in DOMAIN matches
                           /\ Range(matches[single]) = FullNamesFor(single)
                           /\ Len(matches[single]) = Cardinality(FullNamesFor(single))

\* The lower-case single token "thomas" has been matched with two full names
\* that end in "Thomas".
C21_Witness ==
    /\ lastname_matches.called
    /\ "thomas" \in DOMAIN lastname_matches.result
    /\ Len(lastname_matches.result["thomas"]) = 2

\* C22: the groups find_potential_duplicates emits are pairwise disjoint and
\* each has two or more names.
C22_GroupsDisjointAndPlural ==
    potential_duplicates.called =>
        LET groups == potential_duplicates.result
        IN  /\ \A i, j \in DOMAIN groups : i # j => groups[i] \cap groups[j] = {}
            /\ \A i \in DOMAIN groups : Cardinality(groups[i]) >= 2

\* A group was emitted although the potential groups overlap.
C22_Witness ==
    /\ potential_duplicates.called
    /\ Len(potential_duplicates.result) >= 1
    /\ LET pg == PotentialGroups(Range(input_names))
       IN  \E a, b \in DOMAIN pg : a # b /\ pg[a] \cap pg[b] # {}

InSameGroup(groups, a, b) == \E g \in groups : a \in g /\ b \in g

\* The words of the listed suffixes, without blank and punctuation.
SuffixWords == {StripPunct(suffixes[k]) : k \in DOMAIN suffixes}

\* The lower-cased words of a name, punctuation removed, that are no suffix.
CoreWords(name) ==
    LET ws == [k \in DOMAIN Split(name) |-> StripPunct(Lower(Split(name)[k]))]
        keep == {k \in DOMAIN ws : ws[k] \notin SuffixWords}
    IN  {<<Cardinality({j \in keep : j < k}), ws[k]>> : k \in keep}

\* b is a followed by one suffix.
WithSuffix(a, b) ==
    /\ Len(Split(b)) = Len(Split(a)) + 1
    /\ SubSeq(Split(b), 1, Len(Split(a))) = Split(a)
    /\ StripPunct(Lower(Split(b)[Len(Split(b))])) \in SuffixWords

\* C23: find_suffix_duplicates puts two input names in one group exactly when
\* their normalized forms are equal; a name and that name with a suffix are
\* grouped, names that differ in a word that is no suffix are not, and every
\* group has two or more names.
C23_GroupedIffSameNormalForm ==
    suffix_duplicates.called =>
        LET groups == suffix_duplicates.result
        IN  /\ \A g \in groups : Cardinality(g) >= 2 /\ g \subseteq Range(input_names)
            /\ \A a, b \in Range(input_names) :
                  a # b =>
                      /\ InSameGroup(groups, a, b) <=> normalize_name(a) = normalize_name(b)
                      /\ WithSuffix(a, b) /\ Len(Split(a)) >= 2 => InSameGroup(groups, a, b)
                      /\ CoreWords(a) # CoreWords(b) => ~InSameGroup(groups, a, b)

\* "Landon Thomas" and "Landon Thomas Jr." are in one group and "Landon Smith
\* Jr." is in none.
C23_Witness ==
    /\ suffix_duplicates.called
    /\ {"Landon Thomas", "Landon Thomas Jr.", "Landon Smith Jr."} \subseteq Range(input_names)
    /\ suffix_duplicates.result = {{"Landon Thomas", "Landon Thomas Jr."}}

\* The lists that hold the same names as list l.
Reorderings(l) == Orderings(Range(l))

\* C24 (as stated): the set of groups find_potential_duplicates emits is the
\* same for every order in which the same names are listed or iterated.
C24_SameGroupsForAnyOrder ==
    potential_duplicates.called =>
        \A l \in Reorderings(input_names) :
            \A o \in InsertionOrders(l) :
                Range(find_potential_duplicates(l, o)) = Range(potential_duplicates.result)

\* The names that share two or more meaningful tokens with another input name.
LinkedNames ==
    {a \in Range(input_names) : \E b \in Range(input_names) :
        a # b /\ Cardinality(tokenize_name(a) \cap tokenize_name(b)) >= 2}

\* C29 (as stated): every input name that shares two or more meaningful
\* tokens with another input name is in an emitted group, and two names of
\* one emitted group share two or more meaningful tokens.
C29_NoLinkLost ==
    potential_duplicates.called =>
        LET groups == Range(potential_duplicates.result)
        IN  /\ \A a \in LinkedNames : \E g \in groups : a \in g
            /\ \A g \in groups : \A a, b \in g :
                  a # b => Cardinality(tokenize_name(a) \cap tokenize_name(b)) >= 2

----------------------------------------------------------------------------
(* run_name_extraction.py: the concurrent oracle calls (SpecExt) *)

\* len(batches) of the modelled run.
NumBatchesExt == 3

\* MAX_CONCURRENT (10 in the source), scaled to the batches of the model.
MAX_CONCURRENT == 2

\* for attempt in range(5)
MaxAttempts == 5

\* What one POST of call_api can meet: a parsed answer, an "error" object
\* with or without "rate" in its message, an answer without "content", or an
\* exception (connection, timeout, JSON).
ApiOutcomes == {"ok", "rate", "error", "nocontent", "exception"}

\* A call_api task: its position, the attempt of its loop (0 once it has
\* returned) and what it returned.
Task(p, a, r) == [pc |-> p, attempt |-> a, result |-> r]

\* An acquire that never waits.
AcquireUnbounded(value, queue) == TRUE

\* asyncio.Semaphore.acquire returns at once when a permit is free and no
\* earlier caller is waiting.
CanAcquire(value, queue) == value > 0 /\ queue = <<>>

extIdle == UNCHANGED <<consVars, netVars, unique_names, matchVars, pipeVars, rel_rows>>

\* A task reaches "async with semaphore" (as_completed schedules the
\* coroutines in the order of a set).
Enter(b) ==
    /\ tasks[b].pc = "created"
    /\ IF CanAcquire(semaphore, waiters)
       THEN /\ semaphore' = semaphore - 1
            /\ tasks' = [tasks EXCEPT ![b] = Task("posting", 0, NULL)]
            /\ UNCHANGED waiters
       ELSE /\ waiters' = Append(waiters, b)
            /\ tasks' = [tasks EXCEPT ![b] = Task("waiting", 0, NULL)]
            /\ UNCHANGED semaphore
    /\ extIdle

\* The first waiter is woken by a release and takes the permit.
Resume(b) ==
    /\ waiters # <<>> /\ b = Head(waiters)
    /\ semaphore > 0
    /\ semaphore' = semaphore - 1
    /\ waiters' = Tail(waiters)
    /\ tasks' = [tasks EXCEPT ![b] = Task("posting", 0, NULL)]
    /\ extIdle

\* The POST of one attempt ends. A return leaves "async with semaphore"
\* and releases the permit; a sleep keeps it.
Respond(b, outcome) ==
    /\ tasks[b].pc = "posting"
    /\ LET attempt == tasks[b].attempt
           sleeps == \/ outcome = "rate"
                     \/ outcome = "exception" /\ attempt < MaxAttempts - 1
       IN  IF sleeps
           THEN /\ tasks' = [tasks EXCEPT ![b] = Task("sleeping", attempt, NULL)]
                /\ UNCHANGED semaphore
           ELSE /\ tasks' = [tasks EXCEPT ![b] =
                                Task("done", 0, IF outcome = "ok" THEN "parsed" ELSE "None")]
                /\ semaphore' = semaphore + 1
    /\ UNCHANGED waiters
    /\ extIdle

\* asyncio.sleep returns and "continue" starts the next attempt; after the
\* last attempt the loop ends and call_api returns None.
Continue(b) ==
    /\ tasks[b].pc = "sleeping"
    /\ IF tasks[b].attempt + 1 < MaxAttempts
       THEN /\ tasks' = [tasks EXCEPT ![b] = Task("posting", tasks[b].attempt + 1, NULL)]
            /\ UNCHANGED semaphore
       ELSE /\ tasks' = [tasks EXCEPT ![b] = Task("done", 0, "None")]
            /\ semaphore' = semaphore + 1
    /\ UNCHANGED waiters
    /\ extIdle

\* tasks = [call_api(session, batch, semaphore) for batch in batches]
extInit ==
    /\ tasks = [b \in 1..NumBatchesExt |-> Task("created", 0, NULL)]
    /\ semaphore = MAX_CONCURRENT
    /\ waiters = <<>>

InitExt == extInit /\ consFrozen /\ netFrozen /\ matchFrozen /\ pipeFrozen /\ relFrozen

NextExt ==
    \/ \E b \in 1..NumBatchesExt : Enter(b)
    \/ \E b \in 1..NumBatchesExt : Resume(b)
    \/ \E b \in 1..NumBatchesExt : \E outcome \in ApiOutcomes : Respond(b, outcome)
    \/ \E b \in 1..NumBatchesExt : Continue(b)

SpecExt == InitExt /\ [][NextExt]_vars

\* The event loop runs a task that can go on: a POST ends with an answer or
\* an exception within ClientTimeout(total=120), a sleep ends, a woken waiter
\* is resumed.
SpecExtLive == SpecExt /\ WF_vars(NextExt)

----------------------------------------------------------------------------
(* Claims about the concurrent oracle calls, checked under SpecExtLive. *)

\* The batches whose call holds the semaphore: a request is out or the task
\* sleeps between two attempts.
InFlight == {b \in DOMAIN tasks : tasks[b].pc \in {"posting", "sleeping"}}

\* The batch's first request has been sent.
Issued(b) == tasks[b].pc \in {"posting", "sleeping", "done"}

\* C25: at every moment at most MAX_CONCURRENT batches have an oracle request
\* in flight, a batch that waits between retries included, and every batch is
\* eventually issued.
C25_BoundedConcurrencyAndProgress ==
    /\ [](Cardinality(InFlight) <= MAX_CONCURRENT)
    /\ \A b \in 1..NumBatchesExt : <>Issued(b)

\* MAX_CONCURRENT batches are in flight, one of them asleep between two
\* attempts, while another batch waits for the semaphore.
C25_Witness ==
    /\ DOMAIN tasks = 1..NumBatchesExt
    /\ Cardinality(InFlight) = MAX_CONCURRENT
    /\ \E b \in InFlight : tasks[b].pc = "sleeping" /\ tasks[b].attempt >= 1
    /\ waiters # <<>>

----------------------------------------------------------------------------
(* run_pipeline.py: the steps of one pipeline run (SpecPipe) *)

\* steps of run_pipeline.main.
steps ==
    << [name |-> "F1: Name Extraction", script |-> "run_name_extraction.py"],
       [name |-> "Create Unique Names", script |-> "create_unique_names.py"],
       [name |-> "F2: Name Consolidation", script |-> "run_name_consolidation.py"],
       [name |-> "Build Network", script |-> "build_network.py"],
       [name |-> "F3: Relationship Description", script |-> "run_relationship_description.py"],
       [name |-> "F4: Cluster Analysis", script |-> "analyze_clusters.py"] >>

\* The generation columns "canonical_name [..]" of FINAL_3_unique_names.
GenerationColumns == {"F2", "F2c", "F2d"}

\* The tables of the database.
Tables ==
    {"1_discussion_messages", "FINAL_2_CLASSIFIER_name_extraction",
     "FINAL_3_unique_names", "FINAL_5_network", "FINAL_4_CLASSIFIER_relationship_description",
     "FINAL_6_CLASSIFIER_cluster_analysis"}

\* The tables and generation columns the SELECT statements of a script name.
Reads(script) ==
    CASE script = "run_name_extraction.py" -> {"1_discussion_messages"}
      [] script = "create_unique_names.py" -> {"FINAL_2_CLASSIFIER_name_extraction"}
      [] script = "run_name_consolidation.py" -> {"FINAL_3_unique_names"}
      [] script = "build_network.py" ->
            {"FINAL_3_unique_names", "F2d", "FINAL_2_CLASSIFIER_name_extraction"}
      [] script = "run_relationship_description.py" ->
            {"FINAL_3_unique_names", "F2d", "FINAL_2_CLASSIFIER_name_extraction"}
      [] script = "analyze_clusters.py" ->
            {"FINAL_5_network", "FINAL_4_CLASSIFIER_relationship_description"}

\* The tables and generation columns a script creates or fills.
Writes(script) ==
    CASE script = "run_name_extraction.py" -> {"FINAL_2_CLASSIFIER_name_extraction"}
      [] script = "create_unique_names.py" -> {"FINAL_3_unique_names"}
      [] script = "run_name_consolidation.py" -> {"F2"}
      [] script = "build_network.py" -> {"FINAL_5_network"}
      [] script = "run_relationship_description.py" ->
            {"FINAL_4_CLASSIFIER_relationship_description"}
      [] script = "analyze_clusters.py" -> {"FINAL_6_CLASSIFIER_cluster_analysis"}

\* The scripts that can end normally without writing: the first pass when
\* consolidation_map is empty, build_network when the graph has no node.
MayWriteNothing == {"run_name_consolidation.py", "build_network.py"}

\* What a script run can come to: it writes its output, it ends normally
\* without writing, or a SELECT raises.
ScriptOutcomes == {"wrote", "wrote nothing", "raised"}

\* The outcomes script can have on database d. A missing table raises
\* "no such table". A missing column is named in double quotes: SQLite
\* raises "no such column" or, where its double-quoted string literals are
\* enabled, reads the name as a string and the script goes on.
OutcomesOn(script, d) ==
    LET absent == Reads(script) \ d
    IN  IF absent \cap Tables # {} THEN {"raised"}
        ELSE (IF absent # {} THEN {"raised"} ELSE {}) \cup
             {"wrote"} \cup
             (IF script \in MayWriteNothing THEN {"wrote nothing"} ELSE {})

\* The databases a pipeline run can start on: the fresh one with the source
\* table only, or one that earlier runs of the scripts have filled up to
\* some point (a generation needs its parent, a table its inputs).
StartDatabases ==
    {d \in SUBSET ((Tables \cup GenerationColumns) \ {"1_discussion_messages"}) :
        /\ d # {} => "FINAL_2_CLASSIFIER_name_extraction" \in d
        /\ d \cap GenerationColumns # {} => "FINAL_3_unique_names" \in d
        /\ "F2c" \in d => "F2" \in d
        /\ "F2d" \in d => "F2c" \in d
        /\ "FINAL_5_network" \in d => "F2d" \in d
        /\ "FINAL_4_CLASSIFIER_relationship_description" \in d => "F2d" \in d
        /\ "FINAL_6_CLASSIFIER_cluster_analysis" \in d =>
              {"FINAL_5_network", "FINAL_4_CLASSIFIER_relationship_description"} \subseteq d}

pipeIdle == UNCHANGED <<consVars, netVars, unique_names, matchVars, extVars, rel_rows>>

\* One iteration of "for name, script in steps": run_script, append to
\* results, break when the script failed. The entry also keeps which of the
\* objects the script reads were absent and which no earlier step of this
\* run had written.
RunScript(outcome) ==
    /\ Len(results) < Len(steps)
    /\ IF results = <<>> THEN TRUE ELSE results[Len(results)].success
    /\ LET step == steps[Len(results) + 1]
       IN  /\ outcome \in OutcomesOn(step.script, db)
           /\ results' = Append(results,
                            [name |-> step.name,
                             success |-> outcome # "raised",
                             absent |-> Reads(step.script) \ db,
                             unwritten |-> Reads(step.script) \ written])
           /\ IF outcome = "wrote"
              THEN /\ db' = db \cup Writes(step.script)
                   /\ written' = written \cup Writes(step.script)
              ELSE UNCHANGED <<db, written>>
    /\ pipeIdle

pipeInit ==
    /\ \E d \in StartDatabases : db = d \cup {"1_discussion_messages"}
    /\ written = {}
    /\ results = <<>>

InitPipe == pipeInit /\ consFrozen /\ netFrozen /\ matchFrozen /\ extFrozen /\ relFrozen

NextPipe == \E outcome \in ScriptOutcomes : RunScript(outcome)

SpecPipe == InitPipe /\ [][NextPipe]_vars

----------------------------------------------------------------------------
(* Claims about the step order, checked under SpecPipe. *)

\* C26 (as stated): every generation column a step of the pipeline reads has
\* been written by an earlier step of the same run; Build Network finds
\* generation F2d written by a preceding step.
C26_ReadGenerationsWrittenBefore ==
    \A k \in DOMAIN results : results[k].unwritten \cap GenerationColumns = {}

----------------------------------------------------------------------------
(* Claims about classes and the sentinel, checked under Spec. *)

\* C27: the UPDATEs of a refinement pass never split a class: two raw names
\* with the same value in the column of the pass before the changes are
\* applied have the same value in it after they are applied.
C27_ClassNeverSplit ==
    [][IsApplyStep =>
         LET col == TargetColumn(run_id)
             before == Prepared(tbl, run_id)
         IN  \A r1, r2 \in RawNames :
                before[r1][col] = before[r2][col] => tbl'[r1][col] = tbl'[r2][col]]_vars

\* A pass with a column of its own has moved a class of two raw names to
\* another canonical name.
C27_Witness ==
    /\ pc = "done" /\ run_id \in {"F2c", "F2d"}
    /\ all_changes # <<>>
    /\ \E r1, r2 \in RawNames :
          /\ r1 # r2
          /\ tbl[r1][SourceColumn(run_id)] = tbl[r2][SourceColumn(run_id)]
          /\ tbl[r1][TargetColumn(run_id)] = tbl[r2][TargetColumn(run_id)]
          /\ tbl[r1][TargetColumn(run_id)] # tbl[r1][SourceColumn(run_id)]

\* C28 (as stated): a raw name whose value is the sentinel NONE when the
\* changes of a pass are applied has the value NONE afterwards, whatever the
\* oracle answered.
C28_NoneIsAbsorbing ==
    [][IsApplyStep =>
         LET col == TargetColumn(run_id)
             before == Prepared(tbl, run_id)
         IN  \A r \in RawNames : before[r][col] = NONE => tbl'[r][col] = NONE]_vars

----------------------------------------------------------------------------
(* The two stages that select people by occurrences (SpecSel) *)

\* excluded of get_canonical_names_with_occurrences.
RelExcluded ==
    {"None", "Jeffrey Epstein", "Jeffrey E.", "Jeffrey E", "Jeffrey", "E. Jeffrey",
     "Epstein", "Jeff Epstein", "J. Epstein"}

RECURSIVE SumOver(_, _)
\* SUM(occurrences) over the rows S.
SumOver(occurrences, S) ==
    IF S = {} THEN 0
    ELSE LET n == CHOOSE x \in S : TRUE
         IN  occurrences[n] + SumOver(occurrences, S \ {n})

\* The rows of FINAL_3_unique_names the WHERE clause keeps.
RelRows ==
    {n \in DOMAIN unique_names.occurrences :
        /\ DictGet(name_mapping, n) # NULL
        /\ DictGet(name_mapping, n) \notin RelExcluded}

\* SUM(occurrences) of the group of canonical name c.
total_occurrences(c) ==
    SumOver(unique_names.occurrences, {n \in RelRows : DictGet(name_mapping, n) = c})

\* The rows the query returns: GROUP BY the canonical name, HAVING
\* SUM(occurrences) >= 4.
get_canonical_names_with_occurrences ==
    [c \in {g \in {DictGet(name_mapping, n) : n \in RelRows} :
              total_occurrences(g) >= MinOccurrences}
       |-> total_occurrences(c)]

selIdle == UNCHANGED <<consVars, matchVars, extVars, pipeVars>>

\* build_network.main starts: the two SELECTs read the mapping and the rows.
LoadNetworkInput ==
    /\ npc = "names_done"
    /\ npc' = "count"
    /\ UNCHANGED <<name_mapping, emails, email_i, person_counts, email_persons,
                   valid_persons, edges, edge_examples, G, out_edges, out_nodes>>
    /\ UNCHANGED <<unique_names, rel_rows>>
    /\ selIdle

\* canonical_names = get_canonical_names_with_occurrences(), in
\* run_relationship_description.py, which the pipeline runs after
\* build_network.py.
SelectPeople ==
    /\ npc = "edges"
    /\ ~rel_rows.called
    /\ rel_rows' = Returned(get_canonical_names_with_occurrences)
    /\ UNCHANGED <<netVars, unique_names>>
    /\ selIdle

\* The extraction table is filled, FINAL_3_unique_names does not exist yet,
\* and name_mapping holds the canonical names the consolidation passes will
\* have written when build_network reads them.
selInit ==
    /\ name_mapping \in NameMappings
    /\ \E rows \in [1..NumThreads -> ThreadMenu] :
          emails = [k \in 1..NumThreads |->
                      [thread_id |-> k, names_json |-> rows[k].names_json,
                       body |-> rows[k].body]]
    /\ unique_names = [exists |-> FALSE, occurrences |-> <<>>]
    /\ npc = "names" /\ email_i = 0
    /\ person_counts = <<>> /\ email_persons = <<>> /\ valid_persons = {}
    /\ edges = <<>> /\ edge_examples = <<>>
    /\ G = [nodes |-> {}, edges |-> {}, community |-> <<>>]
    /\ out_edges = {} /\ out_nodes = {}
    /\ rel_rows = NotCalled

InitSel == selInit /\ consFrozen /\ matchFrozen /\ extFrozen /\ pipeFrozen

NextSel ==
    \/ CreateUniqueNames
    \/ LoadNetworkInput
    \/ ProcessEmail
    \/ FilterValid
    \/ SelectPeople

SpecSel == InitSel /\ [][NextSel]_vars

----------------------------------------------------------------------------
(* Claims about the two occurrence counts, checked under SpecSel. *)

\* C30 (as stated): for every canonical entity the total the
\* relationship-description stage selects by equals the occurrence count of
\* build_network, and both stages select the same people.
C30_StagesSelectSamePeople ==
    rel_rows.called =>
        /\ \A c \in DOMAIN rel_rows.result \cup DOMAIN person_counts :
              total_occurrences(c) = CounterGet(person_counts, c)
        /\ DOMAIN rel_rows.result = valid_persons

====
